---- MODULE Spec2Model ----
(***************************************************************************)
(* camctrl: ONVIF camera control.                                          *)
(*   Device::new        (src/src/device.rs)    service-resolution bootstrap *)
(*   run_command        (src/src/main.rs)      get-users / set-user / reboot*)
(*   discover           (src/src/discovery.rs) WS-Discovery multicast probe *)
(* Strings whose characters matter (URIs, scope tokens) are sequences of    *)
(* one-character strings; "h" stands for the scheme http, ":" for "://".    *)
(***************************************************************************)
EXTENDS Integers, Sequences, FiniteSets

(* ---------------------------------------------------------------- bounds *)
\* longest service list the device answers get-services with
MaxServices == 2
\* longest account list the device answers get-users with
MaxUsers == 2
\* most interface addresses getifaddrs lists
MaxIfaces == 2
\* most datagrams received on one interface before the receive times out
MaxResponses == 2
\* most probe-match entries in one response
MaxMatches == 2

(* ------------------------------------------------------------- constants *)
\* Device::SERVICE_TIMEOUT, seconds
SERVICE_TIMEOUT == 10
\* send_probe: LOCAL_PORT, MULTI_PORT
LOCAL_PORT == 0
MULTI_PORT == 3702

(* ---------------------------------------------------------------- values *)
\* Option<T>
None == <<>>
Some(x) == <<x>>
IsSome(o) == o # <<>>
Unwrap(o) == o[1]

\* Result<T, DeviceError>
Ok(v) == [tag |-> "Ok", val |-> v]
Err(kind, msg) == [tag |-> "Err", kind |-> kind, msg |-> msg]

(* ------------------------------------------------------- strings and URLs *)
StartsWith(s, p) == Len(p) <= Len(s) /\ SubSeq(s, 1, Len(p)) = p

SchemeChars == {"h", "H"}
HostChars == {"a", "b", "A", "B"}

LowerChar(c) == CASE c = "H" -> "h" [] c = "A" -> "a" [] c = "B" -> "b" [] OTHER -> c
Lower(s) == [k \in 1..Len(s) |-> LowerChar(s[k])]

\* length of the longest prefix of s made of characters of set cs
RECURSIVE SpanLen(_, _)
SpanLen(s, cs) == IF s # <<>> /\ Head(s) \in cs THEN 1 + SpanLen(Tail(s), cs) ELSE 0

\* index of the first "?" of s, or Len(s) + 1
RECURSIVE QueryAt(_)
QueryAt(s) == IF s = <<>> \/ Head(s) = "?" THEN 1 ELSE 1 + QueryAt(Tail(s))

\* Url::parse: scheme ":" host [path] ["?" query]. The scheme and the host are
\* lower-cased, an empty path becomes "/", anything else is a parse error.
UrlParse(s) ==
    IF ~(Len(s) >= 2 /\ s[1] \in SchemeChars /\ s[2] = ":")
    THEN [ok |-> FALSE]
    ELSE LET rest == SubSeq(s, 3, Len(s))
             h == SpanLen(rest, HostChars)
             after == SubSeq(rest, h + 1, Len(rest))
             q == QueryAt(after)
             path == SubSeq(after, 1, q - 1)
         IN  IF h = 0 \/ (after # <<>> /\ Head(after) \notin {"/", "?"})
             THEN [ok |-> FALSE]
             ELSE [ok |-> TRUE,
                   scheme |-> LowerChar(s[1]),
                   host |-> Lower(SubSeq(rest, 1, h)),
                   path |-> IF path = <<>> THEN <<"/">> ELSE path,
                   query |-> SubSeq(after, q, Len(after))]

\* Url::as_str: the serialization of a parsed Url
AsStr(u) == <<u.scheme, ":">> \o u.host \o u.path \o u.query

\* Url::set_path: only the path changes; the query is kept
SetPath(u, p) == [u EXCEPT !.path = p]

(* ----------------------------------------------------- Device (device.rs) *)
NS_DEVICE == "http://www.onvif.org/ver10/device/wsdl"
NS_EVENTS == "http://www.onvif.org/ver10/events/wsdl"
NS_DEVICEIO == "http://www.onvif.org/ver10/deviceIO/wsdl"
NS_MEDIA == "http://www.onvif.org/ver10/media/wsdl"
NS_MEDIA2 == "http://www.onvif.org/ver20/media/wsdl"
NS_IMAGING == "http://www.onvif.org/ver20/imaging/wsdl"
NS_PTZ == "http://www.onvif.org/ver20/ptz/wsdl"
NS_ANALYTICS == "http://www.onvif.org/ver20/analytics/wsdl"
\* a namespace no arm of the match names
NS_OTHER == "http://www.onvif.org/ver10/search/wsdl"

\* the namespace each optional field of Device is assigned from
SlotNamespace ==
    [event |-> NS_EVENTS, deviceio |-> NS_DEVICEIO, media |-> NS_MEDIA,
     media2 |-> NS_MEDIA2, imaging |-> NS_IMAGING, ptz |-> NS_PTZ,
     analytics |-> NS_ANALYTICS]
Slots == DOMAIN SlotNamespace
KnownNamespaces == {NS_DEVICE} \cup {SlotNamespace[k] : k \in Slots}

\* soap::client::ClientBuilder::new(uri).credentials(c).timeout(t).build()
Client(url, c) == [uri |-> AsStr(url), credentials |-> c, timeout |-> SERVICE_TIMEOUT]

\* the struct literal of Device::new: the primary client, every other field None
NewDevice(uri, c) ==
    [devicemgmt |-> Client(uri, c), event |-> None, deviceio |-> None,
     media |-> None, media2 |-> None, imaging |-> None, ptz |-> None,
     analytics |-> None]

\* Credentials with a lone username or password taken as no credentials
CredentialsLenient(u, p) ==
    IF IsSome(u) /\ IsSome(p)
    THEN Ok(Some([username |-> Unwrap(u), password |-> Unwrap(p)]))
    ELSE Ok(None)

\* match (user.as_ref(), pass.as_ref())
Credentials(u, p) ==
    IF IsSome(u) /\ IsSome(p)
    THEN Ok(Some([username |-> Unwrap(u), password |-> Unwrap(p)]))
    ELSE IF ~IsSome(u) /\ ~IsSome(p)
    THEN Ok(None)
    ELSE Err("Unauthorized", "Username and password must be specified together")

\* base_uri = devicemgmt_uri.clone(); base_uri.set_path("/")
BaseUri(uri) == SetPath(uri, <<"/">>)

\* OutsideBase with the base URI compared without its closing "/"
OutsideBaseNoSlash(url, base) ==
    ~StartsWith(AsStr(url), SubSeq(AsStr(base), 1, 2 + Len(base.host)))

\* !url.as_str().starts_with(base_uri.as_str())
OutsideBase(url, base) == ~StartsWith(AsStr(url), AsStr(base))

\* MgmtMismatch comparing the parsed address instead of the advertised string
MgmtMismatchParsed(x_addr, uri) == AsStr(UrlParse(x_addr)) # AsStr(uri)

\* s.x_addr != devicemgmt_uri.as_str()
MgmtMismatch(x_addr, uri) == x_addr # AsStr(uri)

\* MatchNamespace with the default arm storing the client too
MatchNamespaceDefault(d, ns, svc) ==
    CASE ns = NS_EVENTS -> [d EXCEPT !.event = svc]
      [] ns = NS_DEVICEIO -> [d EXCEPT !.deviceio = svc]
      [] ns = NS_MEDIA -> [d EXCEPT !.media = svc]
      [] ns = NS_MEDIA2 -> [d EXCEPT !.media2 = svc]
      [] ns = NS_IMAGING -> [d EXCEPT !.imaging = svc]
      [] ns = NS_PTZ -> [d EXCEPT !.ptz = svc]
      [] OTHER -> [d EXCEPT !.analytics = svc]

\* MatchNamespace with the two media arms exchanged
MatchNamespaceSwapped(d, ns, svc) ==
    CASE ns = NS_EVENTS -> [d EXCEPT !.event = svc]
      [] ns = NS_DEVICEIO -> [d EXCEPT !.deviceio = svc]
      [] ns = NS_MEDIA -> [d EXCEPT !.media2 = svc]
      [] ns = NS_MEDIA2 -> [d EXCEPT !.media = svc]
      [] ns = NS_IMAGING -> [d EXCEPT !.imaging = svc]
      [] ns = NS_PTZ -> [d EXCEPT !.ptz = svc]
      [] ns = NS_ANALYTICS -> [d EXCEPT !.analytics = svc]
      [] OTHER -> d

\* the match on s.namespace: the field svc is stored in, if any
MatchNamespace(d, ns, svc) ==
    CASE ns = NS_EVENTS -> [d EXCEPT !.event = svc]
      [] ns = NS_DEVICEIO -> [d EXCEPT !.deviceio = svc]
      [] ns = NS_MEDIA -> [d EXCEPT !.media = svc]
      [] ns = NS_MEDIA2 -> [d EXCEPT !.media2 = svc]
      [] ns = NS_IMAGING -> [d EXCEPT !.imaging = svc]
      [] ns = NS_PTZ -> [d EXCEPT !.ptz = svc]
      [] ns = NS_ANALYTICS -> [d EXCEPT !.analytics = svc]
      [] OTHER -> d

\* one pass of the body of `for s in &services.service`: the error it returns
\* with, if any, and the Device after it
ServiceStep(d, s, uri, base, c) ==
    LET url == UrlParse(s.x_addr)
    IN  IF ~url.ok
        THEN [err |-> Some(Err("Unknown", "url parse error")), out |-> d]
        ELSE IF OutsideBase(url, base)
        THEN [err |-> Some(Err("UnexpectedBehavior", "Service URI is not within base URI")),
              out |-> d]
        ELSE IF s.namespace = NS_DEVICE
        THEN IF MgmtMismatch(s.x_addr, uri)
             THEN [err |-> Some(Err("UnexpectedBehavior", "advertised device mgmt uri not expected")),
                   out |-> d]
             ELSE [err |-> None, out |-> d]
        ELSE [err |-> None, out |-> MatchNamespace(d, s.namespace, Some(Client(url, c)))]

\* From<transport::Error> turning every error into a message (Unknown)
FromTransportErrorUnknown(e) ==
    IF e = "Authorization" THEN Err("Unauthorized", e) ELSE Err("Unknown", e)

\* impl From<transport::Error> for DeviceError
FromTransportError(e) ==
    IF e = "Authorization" THEN Err("Unauthorized", e) ELSE Err("Transport", e)

(* ------------------------------------------------------------ the inputs *)
\* the primary endpoints a caller passes (parsed Urls), one with a query
PrimaryEndpoints ==
    {UrlParse(<<"h", ":", "a", "/", "d">>), UrlParse(<<"h", ":", "a", "/", "d", "?", "q">>)}

\* the addresses a device advertises
Addresses ==
    {<<"h", ":", "a", "/", "d">>,            \* the primary endpoint
     <<"h", ":", "a", "/", "d", "/">>,       \* ... with a trailing slash
     <<"h", ":", "a", "/", "d", "?", "q">>,  \* ... with a query
     <<"H", ":", "A", "/", "d">>,            \* the primary endpoint, not normalized
     <<"h", ":", "a", "b", "/", "e">>,       \* another host
     <<"e">>}                                \* not a URL
Namespaces == KnownNamespaces \cup {NS_OTHER}
ServiceDescriptors == [namespace : Namespaces, x_addr : Addresses]

\* the service lists of the devices run_command is run against
CommandServiceLists ==
    {<<>>,
     <<[namespace |-> NS_DEVICE, x_addr |-> <<"h", ":", "a", "/", "d">>],
       [namespace |-> NS_MEDIA, x_addr |-> <<"h", ":", "a", "/", "d", "/">>]>>,
     <<[namespace |-> NS_EVENTS, x_addr |-> <<"h", ":", "a", "b", "/", "e">>]>>}

\* sequences over S of length at most n
SeqsUpTo(S, n) == UNION {[1..k -> S] : k \in 0..n}

\* transport::Error, by variant
TransportErrors == {"Authorization", "Other"}

VARIABLES
    pc,             \* where Device::new stands
    devicemgmt_uri, \* Device::new's arguments
    user,
    pass,
    creds,          \* its locals
    base_uri,
    out,
    services,
    idx,            \* the position of `for s in &services.service`
    ret,            \* what Device::new returned, once it has
    rpcs,           \* the requests issued so far, in order
    cli,            \* run_command's argument (None: Device::new is called alone)
    cpc,            \* where run_command stands
    device,         \* its locals
    users,
    update_user,
    cret,           \* what run_command returned, once it has
    status,         \* the process's exit status, once it has exited
    printed,        \* the lines the last step wrote to stdout
    dpc,            \* where discover stands
    ipv4s,          \* its locals: the addresses still to probe,
    socket,         \* the socket of the interface being listened on,
    received,       \* the datagrams received on it so far,
    response_result,\* what the last recv_string returned
    probes,         \* the probes sent so far, in order
    dresult         \* how discover ended, once it has

newvars == <<pc, devicemgmt_uri, user, pass, creds, base_uri, out, services, idx, ret>>
cmdvars == <<cli, cpc, device, users, update_user, cret, status>>
discvars == <<dpc, ipv4s, socket, received, response_result, probes, dresult>>
vars == <<newvars, rpcs, cmdvars, printed, discvars>>

\* discover is not running
DiscoverIdle ==
    /\ dpc = "idle"
    /\ ipv4s = <<>>
    /\ socket = None
    /\ received = 0
    /\ response_result = None
    /\ probes = <<>>
    /\ dresult = None

\* a request on a client and how the transport answered it: "Ok", or the
\* transport::Error it returned
Rpc(client, op, arg, reply) == [client |-> client, op |-> op, arg |-> arg, reply |-> reply]

\* Device::new is called with any endpoint and any Option pair
InitNew ==
    /\ pc = "new"
    /\ devicemgmt_uri \in PrimaryEndpoints
    /\ user \in {None, Some("admin")}
    /\ pass \in {None, Some("secret")}
    /\ creds = None
    /\ base_uri = None
    /\ out = None
    /\ services = <<>>
    /\ idx = 0
    /\ ret = None
    /\ rpcs = <<>>
    /\ cli = None
    /\ cpc = "idle"
    /\ device = None
    /\ users = None
    /\ update_user = None
    /\ cret = None
    /\ status = None
    /\ printed = <<>>
    /\ DiscoverIdle

\* lines 82-108: the credentials, the primary client, the base URI
NewCredentials ==
    /\ pc = "new"
    /\ LET c == Credentials(user, pass)
       IN  IF c.tag = "Err"
           THEN /\ ret' = Some(c)
                /\ pc' = "returned"
                /\ UNCHANGED <<creds, out, base_uri>>
           ELSE /\ creds' = c.val
                /\ out' = Some(NewDevice(devicemgmt_uri, c.val))
                /\ base_uri' = Some(BaseUri(devicemgmt_uri))
                /\ pc' = "get_services"
                /\ UNCHANGED ret
    /\ UNCHANGED <<devicemgmt_uri, user, pass, services, idx, rpcs>>
    /\ UNCHANGED <<cmdvars, printed, discvars>>

\* the lists get-services is answered with: any list when Device::new is called
\* alone, one of CommandServiceLists under run_command
ServiceReplies ==
    IF cli = None THEN SeqsUpTo(ServiceDescriptors, MaxServices) ELSE CommandServiceLists

\* lines 110-111: get_services(&out.devicemgmt).await? answered with a list
GetServicesOk ==
    /\ pc = "get_services"
    /\ rpcs' = Append(rpcs, Rpc(Unwrap(out).devicemgmt, "GetServices", None, "Ok"))
    /\ \E reply \in ServiceReplies :
          /\ services' = reply
          /\ idx' = 1
          /\ pc' = "loop"
    /\ UNCHANGED <<devicemgmt_uri, user, pass, creds, base_uri, out, ret>>
    /\ UNCHANGED <<cmdvars, printed, discvars>>

\* lines 110-111: get_services(&out.devicemgmt).await? answered with an error
GetServicesErr ==
    /\ pc = "get_services"
    /\ \E e \in TransportErrors :
          /\ rpcs' = Append(rpcs, Rpc(Unwrap(out).devicemgmt, "GetServices", None, e))
          /\ ret' = Some(FromTransportError(e))
          /\ pc' = "returned"
    /\ UNCHANGED <<devicemgmt_uri, user, pass, creds, base_uri, out, services, idx>>
    /\ UNCHANGED <<cmdvars, printed, discvars>>

\* lines 112-144: one descriptor of the list
ServiceLoop ==
    /\ pc = "loop"
    /\ idx <= Len(services)
    /\ LET r == ServiceStep(Unwrap(out), services[idx], devicemgmt_uri, Unwrap(base_uri), creds)
       IN  IF IsSome(r.err)
           THEN /\ ret' = r.err
                /\ pc' = "returned"
                /\ UNCHANGED <<out, idx>>
           ELSE /\ out' = Some(r.out)
                /\ idx' = idx + 1
                /\ UNCHANGED <<ret, pc>>
    /\ UNCHANGED <<devicemgmt_uri, user, pass, creds, base_uri, services, rpcs>>
    /\ UNCHANGED <<cmdvars, printed, discvars>>

\* line 145: Ok(out)
NewReturn ==
    /\ pc = "loop"
    /\ idx > Len(services)
    /\ ret' = Some(Ok(Unwrap(out)))
    /\ pc' = "returned"
    /\ UNCHANGED <<devicemgmt_uri, user, pass, creds, base_uri, out, services, idx, rpcs>>
    /\ UNCHANGED <<cmdvars, printed, discvars>>

NextNew == NewCredentials \/ GetServicesOk \/ GetServicesErr \/ ServiceLoop \/ NewReturn

SpecNew == InitNew /\ [][NextNew]_vars

(* ------------------------------------------------- Device::new: the claims *)
Returned == pc = "returned"
Result == Unwrap(ret)
\* get-services answered with a list (idx is 0 until then)
Listed == idx >= 1
\* Device::new returned from inside the loop, at descriptor idx
FailedAt == Returned /\ Listed /\ Result.tag = "Err"
Failed(kind) == Returned /\ Result.tag = "Err" /\ Result.kind = kind
Primary == AsStr(devicemgmt_uri)
Base == AsStr(BaseUri(devicemgmt_uri))
Parses(s) == UrlParse(s.x_addr).ok
\* the advertised address, parsed, lies within the base URI
Within(s) == Parses(s) /\ StartsWith(AsStr(UrlParse(s.x_addr)), Base)
ExactlyOne == IsSome(user) # IsSome(pass)

\* C1: Device::new called with exactly one of username/password fails with
\* Unauthorized, and no request is issued at any point before it returns.
C1_HalfCredentialsUnauthorized ==
    ExactlyOne =>
        /\ rpcs = <<>>
        /\ pc \in {"new", "returned"}
        /\ Returned => Failed("Unauthorized") /\ out = None

C1_Witness == ExactlyOne /\ Returned /\ Failed("Unauthorized") /\ rpcs = <<>>

\* C2 as stated: whenever some descriptor's address does not start with the
\* base URI, Device::new fails with UnexpectedBehavior.
C2_Original ==
    (Returned /\ Listed /\ \E i \in 1..Len(services) : ~StartsWith(services[i].x_addr, Base))
        => Failed("UnexpectedBehavior")

\* C2 (amended): whenever some descriptor's address does not parse to a URL
\* within the base URI, Device::new returns an error and no Device, whatever
\* was stored before; the error is UnexpectedBehavior unless that address or
\* an earlier one does not parse as a URL, and then it is Unknown.
C2_OutsideBaseFails ==
    (Returned /\ Listed) =>
        \A i \in 1..Len(services) :
            ~Within(services[i]) =>
                /\ Result.tag = "Err"
                /\ Result.kind \in {"UnexpectedBehavior", "Unknown"}
                /\ idx <= i
                /\ Result.kind = "Unknown" <=> ~Parses(services[idx])
                /\ (\A j \in 1..i : Parses(services[j])) => Result.kind = "UnexpectedBehavior"

\* a second descriptor outside the base fails the call after a first was stored
C2_Witness ==
    /\ Failed("UnexpectedBehavior")
    /\ Len(services) = 2 /\ idx = 2
    /\ Unwrap(out).event # None
    /\ Parses(services[2]) /\ ~Within(services[2])

\* the device-management descriptors of the list
IsMgmt(s) == s.namespace = NS_DEVICE

MgmtStoresNothing ==
    (pc = "loop" /\ idx <= Len(services) /\ IsMgmt(services[idx])) => out' = out

C3_WitnessEqual ==
    /\ Returned /\ Listed /\ Result.tag = "Ok"
    /\ \E i \in 1..Len(services) : IsMgmt(services[i]) /\ services[i].x_addr = Primary

IsUnknownNs(s) == s.namespace \notin KnownNamespaces

\* C4 as stated: Device::new never fails at a descriptor whose namespace is
\* outside the known set.
C4_Original == FailedAt => ~IsUnknownNs(services[idx])

\* no step on a descriptor of unknown namespace changes the Device
UnknownStoresNothing ==
    (pc = "loop" /\ idx <= Len(services) /\ IsUnknownNs(services[idx])) => out' = out

\* C4 (amended): a descriptor whose namespace is outside the known set and
\* whose address parses to a URL within the base URI never makes Device::new
\* fail and stores no client (its address is validated like any other: the
\* call fails at it exactly when the address does not parse or lies outside
\* the base URI); a list of such descriptors resolves with no slot populated.
C4_UnknownNamespaceSkipped ==
    /\ [](  /\ (FailedAt /\ IsUnknownNs(services[idx])) => ~Within(services[idx])
            /\ (Returned /\ Listed /\ \A i \in 1..Len(services) :
                    IsUnknownNs(services[i]) /\ Within(services[i]))
                  => Result = Ok(NewDevice(devicemgmt_uri, creds)))
    /\ [][UnknownStoresNothing]_vars

\* two descriptors of unknown namespace, both passed, and a Device returned
C4_Witness ==
    /\ Returned /\ Listed /\ Result.tag = "Ok"
    /\ Len(services) = 2
    /\ \A i \in 1..2 : IsUnknownNs(services[i])

\* the positions of the descriptors of namespace ns
Advertised(ns) == {i \in 1..Len(services) : services[i].namespace = ns}
Max(S) == CHOOSE m \in S : \A n \in S : n <= m

\* C5: a returned Device has its primary client bound to the primary endpoint,
\* and each of the seven slots populated exactly when the list held a
\* descriptor of its namespace, bound (same credentials, same timeout) to the
\* address of the last such descriptor, which lies within the base URI.
C5_HandleMatchesAdvertisement ==
    (Returned /\ Result.tag = "Ok") =>
        /\ Listed
        /\ Result.val.devicemgmt = Client(devicemgmt_uri, creds)
        /\ \A k \in Slots :
              /\ IsSome(Result.val[k]) <=> Advertised(SlotNamespace[k]) # {}
              /\ IsSome(Result.val[k]) =>
                    LET last == services[Max(Advertised(SlotNamespace[k]))]
                    IN  /\ Unwrap(Result.val[k]) = Client(UrlParse(last.x_addr), creds)
                        /\ StartsWith(Unwrap(Result.val[k]).uri, Base)

\* two events descriptors with different addresses: only Events is populated,
\* bound to the second
C5_Witness ==
    /\ Returned /\ Listed /\ Result.tag = "Ok"
    /\ Len(services) = 2
    /\ services[1].namespace = NS_EVENTS /\ services[2].namespace = NS_EVENTS
    /\ UrlParse(services[1].x_addr) # UrlParse(services[2].x_addr)
    /\ Unwrap(Result.val.event).uri = AsStr(UrlParse(services[2].x_addr))
    /\ \A k \in Slots \ {"event"} : Result.val[k] = None

(* ------------------------------------------------- run_command (main.rs) *)
\* util::load_credentials: the first record of the file when no serial is
\* asked for or the record names none, else the first record naming the serial
RECURSIVE FirstCredentials(_, _)
FirstCredentials(records, serial) ==
    IF records = <<>> THEN None
    ELSE LET cred == Head(records)
         IN  IF IsSome(serial) /\ Len(cred.serial) > 0
             THEN IF \E k \in 1..Len(cred.serial) : cred.serial[k] = Unwrap(serial)
                  THEN Some(<<cred.user, cred.pass>>)
                  ELSE FirstCredentials(Tail(records), serial)
             ELSE Some(<<cred.user, cred.pass>>)

\* a file is None when it cannot be read or is not a JSON credential list
LoadCredentials(file, serial) ==
    IF file = None THEN Err("Unknown", "Could not load credential file")
    ELSE Ok(FirstCredentials(Unwrap(file), serial))

\* the credential files on disk
CredFiles ==
    {None, Some(<<>>),
     Some(<<[user |-> "admin", pass |-> "secret", serial |-> <<>>]>>)}

\* the command lines: --uri, --creds and a subcommand
Commands ==
    {[name |-> "GetUsers"], [name |-> "Reboot"]} \cup
    [name : {"SetUser"}, username : {"admin", "nobody"}, password : {"new"}]
Clis ==
    [uri : {None, Some(<<"h", ":", "a", "/", "d">>), Some(<<"e">>)},
     creds : {None, Some("creds.json")},
     command : Commands]

\* schema::onvif::User, as the device lists it
Users ==
    [username : {"admin", "guest"}, password : {None, Some("old")},
     user_level : {"Administrator", "User"}, extension : {None, Some("ext")}]

\* users.into_iter().filter(|u| &u.username == username).next(), with the last
\* match taken instead of the first
ExistingUserLast(list, username) ==
    LET hits == SelectSeq(list, LAMBDA u : u.username = username)
    IN  IF hits = <<>> THEN None ELSE Some(hits[Len(hits)])

\* users.into_iter().filter(|u| &u.username == username).next()
ExistingUser(list, username) ==
    LET hits == SelectSeq(list, LAMBDA u : u.username = username)
    IN  IF hits = <<>> THEN None ELSE Some(Head(hits))

\* the User literal of the SetUser arm
UpdateUser(existing_user, username, password) ==
    [username |-> username, password |-> Some(password),
     user_level |-> existing_user.user_level, extension |-> existing_user.extension]

\* main: exit(status) on Ok(status), exit(-2) on Err
ExitStatus(r) == IF r.tag = "Ok" THEN r.val ELSE -2

\* run_command returns r and main exits
Return(r) ==
    /\ cret' = Some(r)
    /\ status' = Some(ExitStatus(r))
    /\ cpc' = "exit"

\* run_command is called with any command line; Device::new has not been
InitCommand ==
    /\ pc = "idle"
    /\ devicemgmt_uri = None
    /\ user = None
    /\ pass = None
    /\ creds = None
    /\ base_uri = None
    /\ out = None
    /\ services = <<>>
    /\ idx = 0
    /\ ret = None
    /\ rpcs = <<>>
    /\ cli \in {Some(c) : c \in Clis}
    /\ cpc = "start"
    /\ device = None
    /\ users = None
    /\ update_user = None
    /\ cret = None
    /\ status = None
    /\ printed = <<>>
    /\ DiscoverIdle

\* main.rs 184-201: the URI, the credentials, the call of Device::new
RunCommand ==
    /\ cpc = "start"
    /\ LET c == Unwrap(cli)
           uri == IF IsSome(c.uri) THEN UrlParse(Unwrap(c.uri)) ELSE [ok |-> FALSE]
       IN  IF ~IsSome(c.uri)
           THEN /\ Return(Err("Unknown", "No URI specified"))
                /\ UNCHANGED <<pc, devicemgmt_uri, user, pass>>
           ELSE IF ~uri.ok
           THEN /\ Return(Err("Unknown", "Could not parse URI"))
                /\ UNCHANGED <<pc, devicemgmt_uri, user, pass>>
           ELSE \E file \in (IF IsSome(c.creds) THEN CredFiles ELSE {None}) :
                  LET loaded == IF IsSome(c.creds) THEN LoadCredentials(file, None)
                                ELSE Ok(None)
                  IN  IF loaded.tag = "Err"
                      THEN /\ Return(loaded)
                           /\ UNCHANGED <<pc, devicemgmt_uri, user, pass>>
                      ELSE /\ user' = IF IsSome(loaded.val) THEN Some(Unwrap(loaded.val)[1]) ELSE None
                           /\ pass' = IF IsSome(loaded.val) THEN Some(Unwrap(loaded.val)[2]) ELSE None
                           /\ devicemgmt_uri' = uri
                           /\ pc' = "new"
                           /\ cpc' = "new"
                           /\ UNCHANGED <<cret, status>>
    /\ UNCHANGED <<creds, base_uri, out, services, idx, ret, rpcs>>
    /\ UNCHANGED <<cli, device, users, update_user, printed>>
    /\ UNCHANGED discvars

\* main.rs 201-203: Device::new(...).await? and the match on the command
DeviceNewReturned ==
    /\ cpc = "new"
    /\ pc = "returned"
    /\ IF Unwrap(ret).tag = "Err"
       THEN /\ Return(Unwrap(ret))
            /\ UNCHANGED device
       ELSE /\ device' = Some(Unwrap(ret).val)
            /\ cpc' = IF Unwrap(cli).command.name = "Reboot" THEN "system_reboot"
                      ELSE "get_users"
            /\ UNCHANGED <<cret, status>>
    /\ UNCHANGED <<newvars, rpcs, cli, users, update_user, printed>>
    /\ UNCHANGED discvars

\* main.rs 207/215 with device.rs 156-159: get_users answered with an error
GetUsersErr ==
    /\ cpc = "get_users"
    /\ \E e \in TransportErrors :
          /\ rpcs' = Append(rpcs, Rpc(Unwrap(device).devicemgmt, "GetUsers", None, e))
          /\ Return(FromTransportError(e))
    /\ UNCHANGED <<newvars, cli, device, users, update_user, printed>>
    /\ UNCHANGED discvars

\* main.rs 206-212: get-users
GetUsersCommand ==
    /\ cpc = "get_users"
    /\ Unwrap(cli).command.name = "GetUsers"
    /\ rpcs' = Append(rpcs, Rpc(Unwrap(device).devicemgmt, "GetUsers", None, "Ok"))
    /\ \E list \in SeqsUpTo(Users, MaxUsers) :
          /\ users' = Some(list)
          /\ printed' = [k \in 1..Len(list) |-> <<"Users:", list[k]>>]
    /\ Return(Ok(0))
    /\ UNCHANGED <<newvars, cli, device, update_user>>
    /\ UNCHANGED discvars

\* main.rs 214-231: set-user, up to the call of device.set_user
SetUserCommand ==
    /\ cpc = "get_users"
    /\ Unwrap(cli).command.name = "SetUser"
    /\ rpcs' = Append(rpcs, Rpc(Unwrap(device).devicemgmt, "GetUsers", None, "Ok"))
    /\ \E list \in SeqsUpTo(Users, MaxUsers) :
          LET username == Unwrap(cli).command.username
              existing_user == ExistingUser(list, username)
          IN  /\ users' = Some(list)
              /\ IF IsSome(existing_user)
                 THEN /\ update_user' = Some(UpdateUser(Unwrap(existing_user), username,
                                                        Unwrap(cli).command.password))
                      /\ cpc' = "set_user"
                      /\ UNCHANGED <<cret, status, printed>>
                 ELSE /\ printed' = <<<<"User not found.", username>>>>
                      /\ Return(Ok(-1))
                      /\ UNCHANGED update_user
    /\ UNCHANGED <<newvars, cli, device>>
    /\ UNCHANGED discvars

\* main.rs 225 with device.rs 168-173: set_user, then line 242
SetUserRpc ==
    /\ cpc = "set_user"
    /\ \E reply \in {"Ok"} \cup TransportErrors :
          /\ rpcs' = Append(rpcs, Rpc(Unwrap(device).devicemgmt, "SetUser",
                                      <<Unwrap(update_user)>>, reply))
          /\ Return(IF reply = "Ok" THEN Ok(0) ELSE FromTransportError(reply))
    /\ UNCHANGED <<newvars, cli, device, users, update_user, printed>>
    /\ UNCHANGED discvars

\* main.rs 234-237 with device.rs 175-178: reboot
RebootCommand ==
    /\ cpc = "system_reboot"
    /\ \/ \E message \in {"Rebooting"} :
             /\ rpcs' = Append(rpcs, Rpc(Unwrap(device).devicemgmt, "SystemReboot", None, "Ok"))
             /\ printed' = <<<<"Reboot:", message>>>>
             /\ Return(Ok(0))
       \/ \E e \in TransportErrors :
             /\ rpcs' = Append(rpcs, Rpc(Unwrap(device).devicemgmt, "SystemReboot", None, e))
             /\ Return(FromTransportError(e))
             /\ UNCHANGED printed
    /\ UNCHANGED <<newvars, cli, device, users, update_user>>
    /\ UNCHANGED discvars

NextCommand ==
    \/ RunCommand
    \/ NextNew
    \/ DeviceNewReturned
    \/ GetUsersErr
    \/ GetUsersCommand
    \/ SetUserCommand
    \/ SetUserRpc
    \/ RebootCommand

SpecCommand == InitCommand /\ [][NextCommand]_vars

(* ---------------------------------------------------- set-user: the claim *)
Command == Unwrap(cli).command
\* the requests of operation op issued so far
Requests(op) == SelectSeq(rpcs, LAMBDA r : r.op = op)
Ops == [k \in 1..Len(rpcs) |-> rpcs[k].op]
\* the listed accounts of the given username, in list order
Matching == SelectSeq(Unwrap(users), LAMBDA u : u.username = Command.username)

\* C6: set-user lists the users first; with no listed account of exactly the
\* given username it exits with status -1 (Ok(-1), not an error) and issues no
\* update request; with one it issues exactly one update request, carrying the
\* given username, the new password, and the level and extension of the first
\* matching listed account.
C6_SetUserPreservesAccount ==
    Command.name = "SetUser" =>
        /\ ~IsSome(users) => Requests("SetUser") = <<>>
        /\ IsSome(users) =>
              /\ SubSeq(Ops, 1, 2) = <<"GetServices", "GetUsers">>
              /\ Len(Requests("GetUsers")) = 1
              /\ IF Matching = <<>>
                 THEN /\ cpc = "exit"
                      /\ cret = Some(Ok(-1))
                      /\ status = Some(-1)
                      /\ Requests("SetUser") = <<>>
                 ELSE \/ cpc = "set_user" /\ Requests("SetUser") = <<>>
                      \/ /\ cpc = "exit"
                         /\ status \in {Some(0), Some(-2)}
                         /\ Ops = <<"GetServices", "GetUsers", "SetUser">>
                         /\ rpcs[3].arg =
                               <<[username |-> Command.username,
                                  password |-> Some(Command.password),
                                  user_level |-> Matching[1].user_level,
                                  extension |-> Matching[1].extension]>>

\* two listed accounts of the given name that differ in level and extension:
\* the update carries the first one's, and the new password in place of "old"
C6_Witness ==
    /\ Command.name = "SetUser" /\ cpc = "exit" /\ status = Some(0)
    /\ IsSome(users) /\ Len(Matching) = 2
    /\ Matching[1].user_level # Matching[2].user_level
    /\ Matching[1].extension # Matching[2].extension
    /\ Matching[1].password = Some("old")
    /\ Len(Requests("SetUser")) = 1

\* the not-found outcome
C6_WitnessNotFound ==
    /\ Command.name = "SetUser" /\ IsSome(users) /\ Unwrap(users) # <<>>
    /\ Matching = <<>> /\ status = Some(-1)

(* --------------------------------------------------- discover (discovery.rs) *)
MULTI_IPV4_ADDR == <<239, 255, 255, 250>>

\* Ipv4Addr::is_loopback: 127.0.0.0/8
IsLoopback(ip) == ip[1] = 127

\* the entries getifaddrs lists: no address, a link-layer address, or an
\* Inet address of version 4 or 6
InterfaceAddresses ==
    {[address |-> None],
     [address |-> Some([family |-> "Link", v |-> 0, ip |-> <<>>])],
     [address |-> Some([family |-> "Inet", v |-> 6, ip |-> <<0, 0, 0, 1>>])],
     [address |-> Some([family |-> "Inet", v |-> 4, ip |-> <<127, 0, 0, 1>>])],
     [address |-> Some([family |-> "Inet", v |-> 4, ip |-> <<192, 168, 1, 10>>])],
     [address |-> Some([family |-> "Inet", v |-> 4, ip |-> <<10, 0, 0, 2>>])]}

\* an entry passes the four filters: it has an address, an Inet one, of
\* version 4, that is not loopback
Qualifies(iface) ==
    /\ IsSome(iface.address)
    /\ Unwrap(iface.address).family = "Inet"
    /\ Unwrap(iface.address).v = 4
    /\ ~IsLoopback(Unwrap(iface.address).ip)

\* ipv4s: the addresses the filter chain yields, in order
Ipv4s(local_ifaces) ==
    LET kept == SelectSeq(local_ifaces, Qualifies)
    IN  [k \in 1..Len(kept) |-> Unwrap(kept[k].address).ip]

\* scope tokens, in pieces: a token starts with another when its pieces do
ONVIF_SCOPE == <<"onvif://www.onvif.org">>
NameScope == <<"onvif://www.onvif.org", "/name/cam">>
OtherScope == <<"urn:other">>

\* the probe-match entries devices answer with, by their scopes
ProbeMatches ==
    {[scopes |-> <<OtherScope>>],
     [scopes |-> <<ONVIF_SCOPE, OtherScope>>],
     [scopes |-> <<OtherScope, NameScope>>],
     [scopes |-> <<>>]}

\* the datagrams: text that is no probe-matches envelope, or an envelope's text
Datagrams ==
    {[valid |-> FALSE, probe_match |-> <<>>]} \cup
    [valid : {TRUE}, probe_match : SeqsUpTo(ProbeMatches, MaxMatches)]

\* yaserde::de::from_str::<probe_matches::Envelope>(&response).ok()
FromStr(d) == IF d.valid THEN Some([body |-> [probe_matches |-> [probe_match |-> d.probe_match]]])
              ELSE None

\* find_in_scopes finding only a scope equal to the given string
FindInScopesExact(m, prefix) ==
    LET hits == SelectSeq(m.scopes, LAMBDA s : s = prefix)
    IN  IF hits = <<>> THEN None ELSE Some(<<>>)

\* ProbeMatch::find_in_scopes(prefix): what follows the prefix in the first
\* scope that starts with it
FindInScopes(m, prefix) ==
    LET hits == SelectSeq(m.scopes, LAMBDA s : StartsWith(s, prefix))
    IN  IF hits = <<>> THEN None
        ELSE Some(SubSeq(Head(hits), Len(prefix) + 1, Len(Head(hits))))

\* envelope_iter: the entries the filter keeps
EnvelopeIter(envelope) ==
    SelectSeq(envelope.body.probe_matches.probe_match,
              LAMBDA m : IsSome(FindInScopes(m, ONVIF_SCOPE)))

\* build_probe, without its random message id
BuildProbe ==
    [action |-> "http://schemas.xmlsoap.org/ws/2005/04/discovery/Probe",
     to |-> "urn:schemas-xmlsoap-org:ws:2005:04:discovery"]

\* how send_probe ends: Ok, or the call that failed
SendProbeOutcomes == {"Ok", "bind", "join_multicast_v4", "send_to"}

Panic(msg) == [tag |-> "Panic", msg |-> msg]

\* discover is called
InitDiscover ==
    /\ pc = "idle"
    /\ devicemgmt_uri = None
    /\ user = None
    /\ pass = None
    /\ creds = None
    /\ base_uri = None
    /\ out = None
    /\ services = <<>>
    /\ idx = 0
    /\ ret = None
    /\ rpcs = <<>>
    /\ cli = None
    /\ cpc = "idle"
    /\ device = None
    /\ users = None
    /\ update_user = None
    /\ cret = None
    /\ status = None
    /\ printed = <<>>
    /\ dpc = "start"
    /\ ipv4s = <<>>
    /\ socket = None
    /\ received = 0
    /\ response_result = None
    /\ probes = <<>>
    /\ dresult = None

\* lines 12-13: getifaddrs fails
GetIfAddrsErr ==
    /\ dpc = "start"
    /\ dresult' = Some(Err("Unknown", "Could not get local IP addresses"))
    /\ dpc' = "done"
    /\ UNCHANGED <<ipv4s, socket, received, response_result, probes>>
    /\ UNCHANGED <<newvars, rpcs, cmdvars, printed>>

\* lines 12-29: getifaddrs and the filters
GetIfAddrs ==
    /\ dpc = "start"
    /\ \E local_ifaces \in SeqsUpTo(InterfaceAddresses, MaxIfaces) :
          ipv4s' = Ipv4s(local_ifaces)
    /\ dpc' = "iface"
    /\ UNCHANGED <<socket, received, response_result, probes, dresult>>
    /\ UNCHANGED <<newvars, rpcs, cmdvars, printed>>

\* lines 31-35 with send_probe: the next address, its socket and its probe
NextInterface ==
    /\ dpc = "iface"
    /\ ipv4s # <<>>
    /\ LET local_ipv4 == Head(ipv4s)
       IN  /\ ipv4s' = Tail(ipv4s)
           /\ printed' = <<<<"Checking", local_ipv4>>>>
           /\ \E outcome \in SendProbeOutcomes :
                 IF outcome = "Ok"
                 THEN /\ socket' = Some([local |-> <<local_ipv4, LOCAL_PORT>>,
                                         group |-> MULTI_IPV4_ADDR])
                      /\ probes' = Append(probes, [from |-> local_ipv4,
                                                   to |-> <<MULTI_IPV4_ADDR, MULTI_PORT>>,
                                                   probe |-> BuildProbe])
                      /\ received' = 0
                      /\ response_result' = None
                      /\ dpc' = "recv"
                      /\ UNCHANGED dresult
                 ELSE /\ dresult' = Some(Err("Unknown", "Could not send probe"))
                      /\ dpc' = "done"
                      /\ UNCHANGED <<socket, probes, received, response_result>>
    /\ UNCHANGED <<newvars, rpcs, cmdvars>>

\* lines 38-41: recv_string returns an error, the timeout or the socket's:
\* the loop is left and the socket dropped
RecvErr ==
    /\ dpc = "recv"
    /\ \E e \in {"TimedOut", "Io"} : response_result' = Some(Err(e, "recv_string"))
    /\ socket' = None
    /\ printed' = <<>>
    /\ dpc' = "iface"
    /\ UNCHANGED <<ipv4s, received, probes, dresult>>
    /\ UNCHANGED <<newvars, rpcs, cmdvars>>

\* lines 38-58: a datagram is received, parsed, filtered and printed
RecvResponse ==
    /\ dpc = "recv"
    /\ received < MaxResponses
    /\ \E d \in Datagrams :
          LET envelope == FromStr(d)
          IN  /\ response_result' = Some(Ok(d))
              /\ IF IsSome(envelope)
                 THEN /\ printed' = EnvelopeIter(Unwrap(envelope))
                      /\ UNCHANGED <<dpc, dresult, socket>>
                 ELSE /\ dresult' = Some(Panic("called Option::unwrap() on a None value"))
                      /\ dpc' = "done"
                      /\ socket' = None
                      /\ printed' = <<>>
    /\ received' = received + 1
    /\ UNCHANGED <<ipv4s, probes>>
    /\ UNCHANGED <<newvars, rpcs, cmdvars>>

\* line 62: every address was handled
DiscoverReturn ==
    /\ dpc = "iface"
    /\ ipv4s = <<>>
    /\ dresult' = Some(Ok(<<>>))
    /\ dpc' = "done"
    /\ UNCHANGED <<ipv4s, socket, received, response_result, probes>>
    /\ UNCHANGED <<newvars, rpcs, cmdvars, printed>>

NextDiscover ==
    \/ GetIfAddrsErr
    \/ GetIfAddrs
    \/ NextInterface
    \/ RecvErr
    \/ RecvResponse
    \/ DiscoverReturn

SpecDiscover == InitDiscover /\ [][NextDiscover]_vars

(* ------------------------------------------------------ discover: the claims *)
\* the last recv_string returned a datagram
Received == IsSome(response_result) /\ Unwrap(response_result).tag = "Ok"
Datagram == Unwrap(response_result).val
Decodes(d) == IsSome(FromStr(d))
TimedOut(r) == r = Some(Err("TimedOut", "recv_string"))
HasScope(m, token) == \E k \in 1..Len(m.scopes) : m.scopes[k] = token
HasScopeUnder(m, prefix) == \E k \in 1..Len(m.scopes) : StartsWith(m.scopes[k], prefix)

\* C7 as stated: discover ends in an error or aborts only when the local
\* interfaces cannot be enumerated.
C7_Original ==
    dpc = "done" =>
        \/ Unwrap(dresult).tag = "Ok"
        \/ dresult = Some(Err("Unknown", "Could not get local IP addresses"))

C8_WitnessPrefix ==
    /\ Received
    /\ printed = <<[scopes |-> <<OtherScope, NameScope>>]>>

\* C9 as stated: every received response is followed by another receive on
\* the same interface, the loop of an interface is left only on a receive
\* timeout, and a probe is sent only from between two interfaces, the
\* previous one's receive having timed out.
C9_Original ==
    [][ /\ received' = received + 1 => dpc' = "recv" /\ socket' = socket
        /\ (dpc = "recv" /\ dpc' # "recv") => TimedOut(response_result')
        /\ Len(probes') > Len(probes) =>
              /\ dpc = "iface"
              /\ Len(probes') = Len(probes) + 1
              /\ probes # <<>> => TimedOut(response_result)
      ]_vars

\* C10 as stated: a datagram that is no discovery response envelope is
\* skipped, the interface's receive loop going on and the run not ended.
C10_Original ==
    (Received /\ ~Decodes(Datagram)) => dpc = "recv" /\ dresult = None

(* ------------------------------------------------ transport errors: the claim *)
\* the requests the transport answered with an error
FailedRpcs == {k \in 1..Len(rpcs) : rpcs[k].reply # "Ok"}
RpcOps == {"GetServices", "GetUsers", "SetUser", "SystemReboot"}
\* the error the caller gets for transport error e, as the claim has it
AsTransport(e) == Err("Transport", e)
\* ... and with the Authorization variant reported as Unauthorized
AsDeviceError(e) == IF e = "Authorization" THEN Err("Unauthorized", e) ELSE Err("Transport", e)

\* C11 as stated: every transport error an RPC returns reaches the caller as
\* a Transport error carrying it.
C11_Original ==
    \A k \in FailedRpcs :
        /\ rpcs[k].op = "GetServices" => ret = Some(AsTransport(rpcs[k].reply))
        /\ rpcs[k].op # "GetServices" => cret = Some(AsTransport(rpcs[k].reply))

\* C11 (amended): a transport error returned by get-services, get-users,
\* set-user or system-reboot reaches the caller with the collaborator's error
\* in it, as a Transport error, or as Unauthorized when it is the
\* Authorization variant; the failed request is the last one issued (no
\* retry, nothing after it), every operation issues each of its requests at
\* most once, and a get-services failure makes Device::new return an error
\* and no Device.
C11_TransportErrorPropagated ==
    /\ \A op \in RpcOps : Len(Requests(op)) <= 1
    /\ \A k \in 1..Len(rpcs) : rpcs[k].op \in RpcOps
    /\ \A k \in FailedRpcs :
          LET e == rpcs[k].reply
          IN  /\ k = Len(rpcs)
              /\ IF rpcs[k].op = "GetServices"
                 THEN /\ pc = "returned"
                      /\ ret = Some(AsDeviceError(e))
                      /\ device = None
                      /\ cpc \in {"new", "exit"}
                      /\ cpc = "exit" => cret = ret /\ status = Some(-2)
                 ELSE /\ cpc = "exit"
                      /\ cret = Some(AsDeviceError(e))
                      /\ status = Some(-2)

\* set-user fails in the transport after get-services and get-users succeeded
C11_Witness ==
    /\ Ops = <<"GetServices", "GetUsers", "SetUser">>
    /\ rpcs[3].reply = "Other"
    /\ cret = Some(Err("Transport", "Other"))
    /\ status = Some(-2)

\* get-services is refused: Device::new returns Unauthorized and no Device
C11_WitnessAuthorization ==
    /\ Ops = <<"GetServices">>
    /\ rpcs[1].reply = "Authorization"
    /\ cpc = "exit" /\ cret = Some(Err("Unauthorized", "Authorization"))
    /\ device = None

====
